---- MODULE Spec2Model ----
(***************************************************************************)
(* Model of the league standings pipeline:                                 *)
(*   standings_cascade_points_desc.py  (fetch, dedup, aggregate, score,    *)
(*                                      sort, today-feed)                  *)
(*   app.py                            (row metrics, notes, caches)        *)
(*                                                                         *)
(* Python strings are TLA+ strings; the string conversions the code uses   *)
(* (strip, lower, upper, the ^b<digits>^ regex) are tabulated on the       *)
(* strings the model draws its inputs from.  A JSON value that may be a    *)
(* number, a string or null is a record [t, v] with v its str() rendering. *)
(* A field that is absent or null is "" wherever the code reads it through *)
(* `or ""` / `if not raw`.                                                 *)
(***************************************************************************)
EXTENDS Integers, Sequences, FiniteSets, TLC

VARIABLES
    \* ---- identifier dedup, run on its own (SpecDedup) ----
    gs,             \* the input sequence of dedup_by_id
    deduped,        \* the result of the latest pass
    first,          \* the result of the first pass
    passes,         \* how many passes ran
    \* ---- configuration (module-level tables of the standings module) ----
    LEAGUE_ORDER,               \* sequence of <<username, team>>
    TEAM_RECORD_ADJUSTMENTS,    \* team -> <<delta wins, delta losses>>
    TEAM_POINT_ADJUSTMENTS,     \* team -> <<delta points, reason>>
    \* ---- one call of compute_team_record_for_user (SpecAgg) ----
    username_exact, team_name,  \* its arguments
    fetched,                    \* what fetch_page returned for p1 + p2
    considered,                 \* the records that passed step 2
    tally,                      \* wins / losses counted in step 3
    row,                        \* the returned row
    aggDone,                    \* the call returned
    \* ---- the row pipeline behind get_rows_cached (Spec) ----
    scpd_attrs,     \* names the standings module defines (hasattr / globals())
    clock,          \* time.time()
    pc,             \* "idle", "fetching" (inside fetch_page), "done"
    idx,            \* position in LEAGUE_ORDER of the entry being computed
    pageIx,         \* position in PAGES of the page being fetched
    attempt,        \* failed attempts of the running fetch_page call
    pages,          \* records fetched so far for the current entry
    rows,           \* rows computed so far, in roster order
    cache,          \* _cache: [ts, rows, notes]
    ret,            \* what get_rows_cached handed to its caller
    buildRaised,    \* _build_rows_robusto raised
    got,            \* history: per roster entry, the records its fetches returned
    failedAll,      \* history: entries all of whose fetches exhausted the retries
    requests,       \* history: requests.get calls made by the run
    \* ---- one call of games_played_today_scl (SpecFeed) ----
    all_pages,      \* what the fetch_page calls of all roster entries returned
    nowUtc,         \* the instant of the call, as a UTC datetime
    feed,           \* the returned entries, in order
    feedDone,       \* the call returned
    \* ---- get_games_today_cached (SpecToday) ----
    app_rev,        \* the revision of the app that runs: "app.py" or "app - copia.py"
    today_cache,    \* _today_cache: [ts, items]
    \* ---- repeated calls of get_rows_cached (SpecCache) ----
    served          \* history: what the latest call of get_rows_cached did

dedupVars == <<gs, deduped, first, passes>>
confVars == <<LEAGUE_ORDER, TEAM_RECORD_ADJUSTMENTS, TEAM_POINT_ADJUSTMENTS>>
aggVars == <<username_exact, team_name, fetched, considered, tally, row, aggDone>>

pipeVars == <<scpd_attrs, clock, pc, idx, pageIx, attempt, pages, rows, cache, ret,
              buildRaised, got, failedAll, requests>>

feedVars == <<all_pages, nowUtc, feed, feedDone>>

todayVars == <<app_rev, today_cache>>

callVars == <<served>>

vars == <<dedupVars, confVars, aggVars, pipeVars, feedVars, todayVars, callVars>>

TodayIdle == app_rev = "" /\ today_cache = [ts |-> 0, items |-> <<>>]

CallIdle == served = [n |-> 0]

\* the parts of the state a specification does not use stay at rest
FeedIdle == all_pages = <<>> /\ nowUtc = [day |-> 0] /\ feed = <<>> /\ feedDone = FALSE

DedupIdle == gs = <<>> /\ deduped = <<>> /\ first = <<>> /\ passes = 0

AggIdle ==
    /\ username_exact = "" /\ team_name = ""
    /\ fetched = <<>> /\ considered = <<>>
    /\ tally = [wins |-> 0, losses |-> 0]
    /\ row = [user |-> ""]
    /\ aggDone = FALSE

PipeIdle ==
    /\ scpd_attrs = {} /\ clock = 0 /\ pc = "off"
    /\ idx = 0 /\ pageIx = 0 /\ attempt = 0
    /\ pages = <<>> /\ rows = <<>>
    /\ cache = [ts |-> 0, rows |-> <<>>, notes |-> <<>>]
    /\ ret = [raised |-> FALSE, rows |-> <<>>, notes |-> <<>>]
    /\ buildRaised = FALSE /\ got = <<>> /\ failedAll = {} /\ requests = 0

(***************************************************************************)
(* Python values                                                           *)
(***************************************************************************)
PyNone == [t |-> "none", v |-> ""]
PyS(s) == [t |-> "str", v |-> s]
PyI(s) == [t |-> "int", v |-> s]

\* bool(x): None, "" and 0 are falsy
Truthy(x) == ~(x.t = "none" \/ (x.t = "str" /\ x.v = "") \/ (x.t = "int" /\ x.v = "0"))

\* str(x or dflt): the decimal rendering of a number, the string itself
StrOr(x, dflt) == IF Truthy(x) THEN x.v ELSE dflt

(***************************************************************************)
(* String conversions, tabulated                                           *)
(***************************************************************************)
\* BXX_RE.sub("", raw): removes ^b<digits>^ markup
StripMarkup(s) ==
    CASE s = "^b54^TheLSuricato " -> "TheLSuricato "
      [] s = "^b3^cpu"            -> "cpu"
      [] OTHER                    -> s

\* str.strip()
Strip(s) ==
    CASE s = "TheLSuricato " -> "TheLSuricato"
      [] s = " METS "        -> "METS"
      [] s = " league "      -> "league"
      [] s = " w"            -> "w"
      [] OTHER               -> s

\* str.lower()
Lower(s) ==
    CASE s = "THELSURICATO"  -> "thelsuricato"
      [] s = "TheLSuricato"  -> "thelsuricato"
      [] s = "CPU"           -> "cpu"
      [] s = "AiramReynoso_" -> "airamreynoso_"
      [] s = "Mets"          -> "mets"
      [] s = "METS"          -> "mets"
      [] s = "Reds"          -> "reds"
      [] s = "Rangers"       -> "rangers"
      [] OTHER               -> s

\* str.upper()
Upper(s) ==
    CASE s = "league" -> "LEAGUE"
      [] s = "ranked" -> "RANKED"
      [] s = "w"      -> "W"
      [] s = "l"      -> "L"
      [] OTHER        -> s

(***************************************************************************)
(* A raw match record of the game_history API                              *)
(***************************************************************************)
Game(id, mode, date, hfull, afull, hname, aname, hres, ares, hruns, aruns) ==
    [id |-> id, game_mode |-> mode, display_date |-> date,
     home_full_name |-> hfull, away_full_name |-> afull,
     home_name |-> hname, away_name |-> aname,
     home_display_result |-> hres, away_display_result |-> ares,
     home_runs |-> hruns, away_runs |-> aruns]

\* display_date strings: the format they are written in and their fields
\* (day = day of the year 2025; 30 Aug 2025 is day 242)
DateStr(fmt, day, hh, mi, ss) == [fmt |-> fmt, day |-> day, hh |-> hh, mi |-> mi, ss |-> ss]

SeqsUpTo(S, n) == UNION { [1..k -> S] : k \in 0..n }

(***************************************************************************)
(* dedup_by_id                                                             *)
(***************************************************************************)
\* gid = str(g.get("id") or "")
Gid(g) == StrOr(g.id, "")

RECURSIVE dedup_loop_toggle(_, _, _)
dedup_loop_toggle(rest, seen, out) ==
    IF rest = <<>> THEN out
    ELSE LET g == Head(rest)
             gid == Gid(g)
         IN  IF gid # "" /\ gid \in seen
             THEN dedup_loop_toggle(Tail(rest), seen \ {gid}, out)
             ELSE dedup_loop_toggle(Tail(rest),
                                    IF gid # "" THEN seen \cup {gid} ELSE seen,
                                    Append(out, g))

\* mutant: a duplicate hit forgets the identifier again
dedup_by_id_toggle(xs) == dedup_loop_toggle(xs, {}, <<>>)

RECURSIVE dedup_loop_noguard(_, _, _)
dedup_loop_noguard(rest, seen, out) ==
    IF rest = <<>> THEN out
    ELSE LET g == Head(rest)
             gid == Gid(g)
         IN  IF gid \in seen
             THEN dedup_loop_noguard(Tail(rest), seen, out)
             ELSE dedup_loop_noguard(Tail(rest), seen \cup {gid}, Append(out, g))

\* mutant: the empty identifier is tracked like any other
dedup_loop_empty_tracked(rest, seen, out) == dedup_loop_noguard(rest, seen, out)

RECURSIVE dedup_loop(_, _, _)
dedup_loop(rest, seen, out) ==
    IF rest = <<>> THEN out
    ELSE LET g == Head(rest)
             gid == Gid(g)
         IN  IF gid # "" /\ gid \in seen
             THEN dedup_loop(Tail(rest), seen, out)
             ELSE dedup_loop(Tail(rest),
                             IF gid # "" THEN seen \cup {gid} ELSE seen,
                             Append(out, g))

dedup_by_id(xs) == dedup_loop(xs, {}, <<>>)

(***************************************************************************)
(* Configuration                                                           *)
(***************************************************************************)
\* the first entries of LEAGUE_ORDER
Roster3 == << <<"THELSURICATO", "Mets">>, <<"machado_seba-03", "Reds">>,
              <<"zancudo99", "Rangers">> >>

NoAdjust == [t \in {} |-> <<0, 0>>]

\* dict.get(key, default)
Get(d, k, dflt) == IF k \in DOMAIN d THEN d[k] ELSE dflt

\* LEAGUE_USERS = {u for (u, _t) in LEAGUE_ORDER}
LEAGUE_USERS == { LEAGUE_ORDER[i][1] : i \in 1..Len(LEAGUE_ORDER) }

LEAGUE_USERS_NORM == { Lower(u) : u \in LEAGUE_USERS }

MODE == "LEAGUE"

\* datetime values: [ok, day, hh, mi, ss]; ok = FALSE is None
NoDate == [ok |-> FALSE, day |-> 0, hh |-> 0, mi |-> 0, ss |-> 0]
DateTime(day, hh, mi, ss) == [ok |-> TRUE, day |-> day, hh |-> hh, mi |-> mi, ss |-> ss]

\* datetime(2025, 8, 30)
SINCE == DateTime(242, 0, 0, 0)

\* a < b on datetimes
DtBefore(a, b) ==
    \/ a.day < b.day
    \/ a.day = b.day /\ a.hh < b.hh
    \/ a.day = b.day /\ a.hh = b.hh /\ a.mi < b.mi
    \/ a.day = b.day /\ a.hh = b.hh /\ a.mi = b.mi /\ a.ss < b.ss

ConfDefault ==
    /\ LEAGUE_ORDER = Roster3
    /\ TEAM_RECORD_ADJUSTMENTS = NoAdjust
    /\ TEAM_POINT_ADJUSTMENTS = NoAdjust

(***************************************************************************)
(* Utilities                                                               *)
(***************************************************************************)
normalize_user_for_compare(raw) ==
    IF raw = "" THEN "" ELSE Lower(Strip(StripMarkup(raw)))

is_cpu(raw) == normalize_user_for_compare(raw) = "cpu"

\* the two strptime formats; anything else (ISO-8601, free text, "") is None
parse_date(s) ==
    CASE s.fmt = "mdY_HMS" -> DateTime(s.day, s.hh, s.mi, s.ss)
      [] s.fmt = "mdY_HM"  -> DateTime(s.day, s.hh, s.mi, 0)
      [] OTHER             -> NoDate

norm_team(s) == Lower(Strip(s))

Max(a, b) == IF a >= b THEN a ELSE b

(***************************************************************************)
(* compute_team_record_for_user                                            *)
(***************************************************************************)
\* mutant: one member is enough
valid_rival_any(g) ==
    LET h_mem == normalize_user_for_compare(g.home_name) \in LEAGUE_USERS_NORM
        a_mem == normalize_user_for_compare(g.away_name) \in LEAGUE_USERS_NORM
    IN  h_mem \/ a_mem

\* both members, or CPU + member
valid_rival(g) ==
    LET h_mem == normalize_user_for_compare(g.home_name) \in LEAGUE_USERS_NORM
        a_mem == normalize_user_for_compare(g.away_name) \in LEAGUE_USERS_NORM
    IN  \/ (h_mem /\ a_mem)
        \/ (is_cpu(g.home_name) /\ a_mem)
        \/ (is_cpu(g.away_name) /\ h_mem)

\* step 2: LEAGUE + date + the team plays + valid rival
passes_filters(g, team) ==
    /\ Upper(Strip(g.game_mode)) = MODE
    /\ LET d == parse_date(g.display_date) IN d.ok /\ ~DtBefore(d, SINCE)
    /\ norm_team(team) \in {norm_team(Strip(g.home_full_name)),
                            norm_team(Strip(g.away_full_name))}
    /\ valid_rival(g)

Considered(recs, team) == SelectSeq(recs, LAMBDA g : passes_filters(g, team))

\* step 3: one record's contribution <<wins, losses>>
count_one(g, team) ==
    LET home == Strip(g.home_full_name)
        away == Strip(g.away_full_name)
        hr == Upper(Strip(g.home_display_result))
        ar == Upper(Strip(g.away_display_result))
        decided == hr = "W" \/ ar = "W"
        win == IF hr = "W" THEN home ELSE away
        lose == IF hr = "W" THEN away ELSE home
    IN  IF ~decided THEN <<0, 0>>
        ELSE IF norm_team(win) = norm_team(team) THEN <<1, 0>>
        ELSE IF norm_team(lose) = norm_team(team) THEN <<0, 1>>
        ELSE <<0, 0>>

RECURSIVE CountWL(_, _)
CountWL(cons, team) ==
    IF cons = <<>> THEN [wins |-> 0, losses |-> 0]
    ELSE LET c == count_one(Head(cons), team)
             r == CountWL(Tail(cons), team)
         IN  [wins |-> c[1] + r.wins, losses |-> c[2] + r.losses]

\* mutant: three points per win only
make_row_wins_only(user, team, wl) ==
    LET adj == Get(TEAM_RECORD_ADJUSTMENTS, team, <<0, 0>>)
        wins_adj == wl.wins + adj[1]
        losses_adj == wl.losses + adj[2]
        scheduled == 12
        played == Max(wins_adj + losses_adj, 0)
        points_base == 3 * wins_adj
        pts == Get(TEAM_POINT_ADJUSTMENTS, team, <<0, "">>)
    IN  [user |-> user, team |-> team, scheduled |-> scheduled, played |-> played,
         wins |-> wins_adj, losses |-> losses_adj,
         remaining |-> Max(scheduled - played, 0),
         points |-> points_base + pts[1], points_base |-> points_base,
         points_extra |-> pts[1], points_reason |-> pts[2]]

\* steps 4-6: adjustments, metrics, points
make_row(user, team, wl) ==
    LET adj == Get(TEAM_RECORD_ADJUSTMENTS, team, <<0, 0>>)
        wins_adj == wl.wins + adj[1]
        losses_adj == wl.losses + adj[2]
        scheduled == 12
        played == Max(wins_adj + losses_adj, 0)
        points_base == 3 * wins_adj + 2 * losses_adj
        pts == Get(TEAM_POINT_ADJUSTMENTS, team, <<0, "">>)
    IN  [user |-> user, team |-> team, scheduled |-> scheduled, played |-> played,
         wins |-> wins_adj, losses |-> losses_adj,
         remaining |-> Max(scheduled - played, 0),
         points |-> points_base + pts[1], points_base |-> points_base,
         points_extra |-> pts[1], points_reason |-> pts[2]]

\* `recs` is what the fetch_page calls for p1 and p2 returned, concatenated
compute_team_record_for_user(user, team, recs) ==
    make_row(user, team, CountWL(Considered(dedup_by_id(recs), team), team))

(***************************************************************************)
(* app.py: row metrics, sort, notes                                        *)
(***************************************************************************)
USER_ALIASES == [u \in {"airamreynoso_"} |-> "Yosoyreynoso_"]

\* mutant: the metrics of the standings module are kept
apply_keep_metrics(r) ==
    LET display_user == Get(USER_ALIASES, Lower(Strip(r.user)), r.user)
    IN  [user |-> r.user, team |-> r.team, scheduled |-> 13,
         played |-> r.played, wins |-> r.wins, losses |-> r.losses,
         remaining |-> r.remaining,
         points |-> r.points, points_base |-> r.points_base,
         points_extra |-> r.points_extra, points_reason |-> r.points_reason,
         display_user |-> display_user, user_exact |-> display_user]

\* _apply_alias_and_metrics (SCHEDULED_GAMES = 13; _as_int of an int is the int)
apply_alias_and_metrics(r) ==
    LET display_user == Get(USER_ALIASES, Lower(Strip(r.user)), r.user)
        played == r.wins + r.losses
    IN  [user |-> r.user, team |-> r.team, scheduled |-> 13,
         played |-> played, wins |-> r.wins, losses |-> r.losses,
         remaining |-> Max(13 - played, 0),
         points |-> r.points, points_base |-> r.points_base,
         points_extra |-> r.points_extra, points_reason |-> r.points_reason,
         display_user |-> display_user, user_exact |-> display_user]

\* mutant: losses break ties the wrong way round
key_less_losses_desc(a, b) ==
    \/ a.points > b.points
    \/ a.points = b.points /\ a.wins > b.wins
    \/ a.points = b.points /\ a.wins = b.wins /\ a.losses > b.losses

\* key(a) < key(b) for key = (-points, -wins, losses)
key_less(a, b) ==
    \/ a.points > b.points
    \/ a.points = b.points /\ a.wins > b.wins
    \/ a.points = b.points /\ a.wins = b.wins /\ a.losses < b.losses

\* list.sort is stable: x goes behind every element whose key is not greater
RECURSIVE insert_sorted(_, _)
insert_sorted(sorted, x) ==
    IF sorted = <<>> THEN <<x>>
    ELSE IF key_less(x, Head(sorted)) THEN <<x>> \o sorted
    ELSE <<Head(sorted)>> \o insert_sorted(Tail(sorted), x)

RECURSIVE sort_from(_, _)
sort_from(sorted, rest) ==
    IF rest = <<>> THEN sorted
    ELSE sort_from(insert_sorted(sorted, Head(rest)), Tail(rest))

\* rows.sort(key=lambda r: (-points, -wins, losses))
sort_rows(rs) == sort_from(<<>>, rs)

MapRows(rs, F(_)) == [i \in 1..Len(rs) |-> F(rs[i])]

\* mutant: a note for every row that carries a reason
build_notes_by_reason(rs) ==
    MapRows(SelectSeq(rs, LAMBDA r : r.points_reason # ""),
            LAMBDA r : [team |-> r.team, points_extra |-> r.points_extra,
                        points_reason |-> r.points_reason])

\* notes: one per row with a non-zero points_extra, in row order
build_notes(rs) ==
    MapRows(SelectSeq(rs, LAMBDA r : r.points_extra # 0),
            LAMBDA r : [team |-> r.team, points_extra |-> r.points_extra,
                        points_reason |-> r.points_reason])

\* mutant: a missing LEAGUE_ORDER goes unnoticed
config_error_func_only(attrs) == "compute_team_record_for_user" \notin attrs

\* compute_rows (when the module has it) or the per-team fallback raise
\* RuntimeError when no per-team function or no LEAGUE_ORDER is found
config_error(attrs) ==
    IF "compute_rows" \in attrs
    THEN "compute_team_record_for_user" \notin attrs \/ "LEAGUE_ORDER" \notin attrs
    ELSE "compute_team_record_for_user" \notin attrs \/ "LEAGUE_ORDER" \notin attrs

\* _build_rows_robusto once every row is computed: compute_rows sorts, then
\* the app maps _apply_alias_and_metrics, sorts again and collects the notes
finish_rows(attrs, rs) ==
    LET fromModule == IF "compute_rows" \in attrs THEN sort_rows(rs) ELSE rs
        final == sort_rows(MapRows(fromModule, apply_alias_and_metrics))
    IN  [rows |-> final, notes |-> build_notes(final)]

(***************************************************************************)
(* Spec: get_rows_cached -> _build_rows_robusto -> compute_rows ->         *)
(*       compute_team_record_for_user -> fetch_page, one step per request  *)
(***************************************************************************)
RETRIES == 2
CACHE_TTL == 120

\* mutant: only the age of the cache counts
cache_stale_ttl_only(now, c) == now - c.ts > CACHE_TTL

\* now - _cache["ts"] > CACHE_TTL or not _cache["rows"]
cache_stale(now, c) == now - c.ts > CACHE_TTL \/ c.rows = <<>>
PAGES == <<1, 2>>

MaxRoster == 2

E1 == <<"THELSURICATO", "Mets">>
E2 == <<"machado_seba-03", "Reds">>
E3 == <<"zancudo99", "Rangers">>

\* rosters: the entries in any order, without repetition
Rosters ==
    { r \in SeqsUpTo({E1, E2, E3}, MaxRoster) :
        \A i, j \in 1..Len(r) : i # j => r[i] # r[j] }

RecordAdjustments ==
    { NoAdjust, [t \in {"Mets"} |-> <<-1, 0>>], [t \in {"Reds"} |-> <<2, 0>>] }

PointAdjustments ==
    { NoAdjust, [t \in {"Reds"} |-> <<-1, "Desconexion vs Blue Jays">>],
      [t \in {"Mets"} |-> <<2, "Bonificacion fair play">>],
      [t \in {"Reds", "Mets", "Rangers"} |->
          CASE t = "Reds" -> <<-1, "Desconexion vs Blue Jays">>
            [] t = "Mets" -> <<2, "Bonificacion fair play">>
            [] OTHER      -> <<0, "Sin efecto">>] }

\* two league games between roster members
MetsBeatReds ==
    Game(PyI("1"), "LEAGUE", DateStr("mdY_HMS", 243, 1, 30, 0), "Mets", "Reds",
         "THELSURICATO", "machado_seba-03", "W", "L", PyI("5"), PyI("2"))
RedsBeatMets ==
    Game(PyI("2"), "LEAGUE", DateStr("mdY_HMS", 243, 22, 10, 0), "Reds", "Mets",
         "machado_seba-03", "THELSURICATO", "W", "L", PyI("3"), PyI("1"))

\* what one successful request may return under "game_history"
PageResults == { <<>>, <<MetsBeatReds>>, <<RedsBeatMets>> }

Init ==
    /\ LEAGUE_ORDER \in Rosters
    /\ TEAM_RECORD_ADJUSTMENTS \in RecordAdjustments
    /\ TEAM_POINT_ADJUSTMENTS \in PointAdjustments
    /\ scpd_attrs \in SUBSET {"compute_rows", "compute_team_record_for_user", "LEAGUE_ORDER"}
    /\ clock = 1000
    /\ pc = "idle"
    /\ idx = 0 /\ pageIx = 0 /\ attempt = 0
    /\ pages = <<>> /\ rows = <<>>
    /\ cache = [ts |-> 0, rows |-> <<>>, notes |-> <<>>]
    /\ ret = [raised |-> FALSE, rows |-> <<>>, notes |-> <<>>]
    /\ buildRaised = FALSE /\ got = <<>> /\ failedAll = {} /\ requests = 0
    /\ DedupIdle
    /\ AggIdle
    /\ FeedIdle
    /\ TodayIdle
    /\ CallIdle

\* get_rows_cached stores and returns what the build produced; an exception
\* of the build is caught, printed, and replaced by empty rows and notes
Deliver(built, raised) ==
    LET out == IF raised THEN [rows |-> <<>>, notes |-> <<>>] ELSE built
    IN  /\ cache' = [ts |-> clock, rows |-> out.rows, notes |-> out.notes]
        /\ ret' = [raised |-> FALSE, rows |-> out.rows, notes |-> out.notes]
        /\ buildRaised' = raised
        /\ pc' = "done"

\* a route calls get_rows_cached
GetRowsCached ==
    /\ pc = "idle"
    /\ IF cache_stale(clock, cache)
       THEN IF config_error(scpd_attrs)
            THEN /\ Deliver([rows |-> <<>>, notes |-> <<>>], TRUE)
                 /\ UNCHANGED <<idx, pageIx, attempt>>
            ELSE IF LEAGUE_ORDER = <<>>
            THEN /\ Deliver(finish_rows(scpd_attrs, <<>>), FALSE)
                 /\ UNCHANGED <<idx, pageIx, attempt>>
            ELSE /\ pc' = "fetching"
                 /\ idx' = 1 /\ pageIx' = 1 /\ attempt' = 0
                 /\ UNCHANGED <<cache, ret, buildRaised>>
       ELSE /\ ret' = [raised |-> FALSE, rows |-> cache.rows, notes |-> cache.notes]
            /\ pc' = "done"
            /\ UNCHANGED <<cache, buildRaised, idx, pageIx, attempt>>
    /\ UNCHANGED <<scpd_attrs, clock, pages, rows, got, failedAll, requests,
                   confVars, dedupVars, aggVars, feedVars, todayVars,
                   callVars>>

\* fetch_page returned `result` (exhausted = it gave up): the loops of
\* compute_team_record_for_user, compute_rows, _build_rows_robusto and
\* get_rows_cached run on to the next request, or to the end
PageReturned(result, exhausted) ==
    LET all == pages \o result
        lost == IF exhausted /\ (pageIx = 1 \/ idx \in failedAll)
                THEN failedAll \cup {idx} ELSE failedAll \ {idx}
    IN  IF pageIx < Len(PAGES)
        THEN /\ pages' = all
             /\ pageIx' = pageIx + 1 /\ attempt' = 0
             /\ failedAll' = lost
             /\ UNCHANGED <<idx, rows, got, cache, ret, buildRaised, pc>>
        ELSE LET r == compute_team_record_for_user(LEAGUE_ORDER[idx][1],
                                                   LEAGUE_ORDER[idx][2], all)
                 rs == Append(rows, r)
             IN  /\ rows' = rs
                 /\ got' = Append(got, all)
                 /\ failedAll' = lost
                 /\ pages' = <<>>
                 /\ attempt' = 0
                 /\ IF idx < Len(LEAGUE_ORDER)
                    THEN /\ idx' = idx + 1 /\ pageIx' = 1
                         /\ UNCHANGED <<cache, ret, buildRaised, pc>>
                    ELSE /\ Deliver(finish_rows(scpd_attrs, rs), FALSE)
                         /\ UNCHANGED <<idx, pageIx>>

\* mutant: one attempt too many
gave_up_late(failures) == failures > RETRIES

\* `for _ in range(RETRIES)` ends after RETRIES failed attempts
gave_up(failures) == failures >= RETRIES

\* requests.get answers 2xx with a JSON body
FetchOk ==
    /\ pc = "fetching"
    /\ \E result \in PageResults : PageReturned(result, FALSE)
    /\ requests' = requests + 1
    /\ UNCHANGED <<scpd_attrs, clock, confVars, dedupVars, aggVars, feedVars, todayVars,
                   callVars>>

\* requests.get times out, answers non-2xx, or the body is not JSON
FetchFail ==
    /\ pc = "fetching"
    /\ IF ~gave_up(attempt + 1)
       THEN /\ attempt' = attempt + 1
            /\ UNCHANGED <<idx, pageIx, pages, rows, got, failedAll, cache, ret,
                           buildRaised, pc>>
       ELSE PageReturned(<<>>, TRUE)
    /\ requests' = requests + 1
    /\ UNCHANGED <<scpd_attrs, clock, confVars, dedupVars, aggVars, feedVars, todayVars,
                   callVars>>

Next == GetRowsCached \/ FetchOk \/ FetchFail

Spec == Init /\ [][Next]_vars

(***************************************************************************)
(* Properties of the delivered table                                       *)
(***************************************************************************)
Delivered == pc = "done"
RowIdx == 1..Len(ret.rows)

\* C1: in every delivered row played = wins + losses and
\* remaining = max(scheduled - played, 0), whatever the W/L adjustment
C1_PlayedAndRemaining ==
    Delivered =>
        \A k \in RowIdx :
            LET r == ret.rows[k]
            IN  /\ r.played = r.wins + r.losses
                /\ r.remaining = (IF r.scheduled - r.played > 0
                                  THEN r.scheduled - r.played ELSE 0)

\* a negative adjustment left a row with fewer than zero games
C1_Witness ==
    /\ Delivered
    /\ \E k \in RowIdx : ret.rows[k].wins = -1 /\ ret.rows[k].played = -1
                         /\ ret.rows[k].remaining = 14

PointAdjustmentOf(team) ==
    IF team \in DOMAIN TEAM_POINT_ADJUSTMENTS THEN TEAM_POINT_ADJUSTMENTS[team][1] ELSE 0

\* C2: in every delivered row points = 3*wins + 2*losses + the team's point
\* adjustment (0 when the team has none)
C2_PointsFormula ==
    Delivered =>
        \A k \in RowIdx :
            LET r == ret.rows[k]
            IN  r.points = 3 * r.wins + 2 * r.losses + PointAdjustmentOf(r.team)

\* base 9 with adjustment -1 gives 8; another row has no adjustment
C2_Witness ==
    /\ Delivered
    /\ \E k \in RowIdx : /\ ret.rows[k].wins = 3 /\ ret.rows[k].losses = 0
                         /\ PointAdjustmentOf(ret.rows[k].team) = -1
                         /\ ret.rows[k].points = 8
    /\ \E k \in RowIdx : /\ ret.rows[k].team \notin DOMAIN TEAM_POINT_ADJUSTMENTS
                         /\ ret.rows[k].losses = 1 /\ ret.rows[k].points = 2

PointReasonOf(team) ==
    IF team \in DOMAIN TEAM_POINT_ADJUSTMENTS THEN TEAM_POINT_ADJUSTMENTS[team][2] ELSE ""

\* rows 1..k of the delivered table whose team has a non-zero point adjustment
AdjustedUpTo(k) == { i \in 1..k : PointAdjustmentOf(ret.rows[i].team) # 0 }

\* C13: the delivered notes are, in the order of the sorted rows, one note
\* per row whose team has a non-zero point adjustment, and no other; each
\* carries the team, the adjustment and its reason
C13_NotesMatchAdjustedRows ==
    (Delivered /\ ~buildRaised) =>
        /\ Len(ret.notes) = Cardinality(AdjustedUpTo(Len(ret.rows)))
        /\ \A k \in RowIdx :
              PointAdjustmentOf(ret.rows[k].team) # 0 =>
                  ret.notes[Cardinality(AdjustedUpTo(k))] =
                      [team |-> ret.rows[k].team,
                       points_extra |-> PointAdjustmentOf(ret.rows[k].team),
                       points_reason |-> PointReasonOf(ret.rows[k].team)]

\* base 9 with (-1, reason) gives 8 and the first note; the other adjusted
\* team comes first in the roster and second in the table and in the notes
C13_Witness ==
    /\ Delivered /\ Len(ret.rows) = 2 /\ Len(ret.notes) = 2
    /\ ret.rows[1].wins = 3 /\ ret.rows[1].losses = 0 /\ ret.rows[1].points = 8
    /\ ret.notes[1] = [team |-> "Reds", points_extra |-> -1,
                       points_reason |-> "Desconexion vs Blue Jays"]
    /\ ret.notes[2].team = "Mets"
    /\ LEAGUE_ORDER[1][2] = "Mets"

\* alphabetical order of the team names
TeamOrd(t) == CASE t = "Mets" -> 1 [] t = "Rangers" -> 2 [] t = "Reds" -> 3 [] OTHER -> 0

SameKey3(a, b) == a.points = b.points /\ a.wins = b.wins /\ a.losses = b.losses
Key3Before(a, b) ==
    \/ a.points > b.points
    \/ a.points = b.points /\ a.wins > b.wins
    \/ a.points = b.points /\ a.wins = b.wins /\ a.losses < b.losses

\* C3 as claimed: adjacent rows are ordered by (-points, -wins, losses, team)
C3_TeamNameBreaksTies ==
    Delivered =>
        \A k \in RowIdx : k < Len(ret.rows) =>
            \/ Key3Before(ret.rows[k], ret.rows[k + 1])
            \/ /\ SameKey3(ret.rows[k], ret.rows[k + 1])
               /\ TeamOrd(ret.rows[k].team) <= TeamOrd(ret.rows[k + 1].team)

RosterPos(r) ==
    CHOOSE i \in 1..Len(LEAGUE_ORDER) :
        LEAGUE_ORDER[i][1] = r.user /\ LEAGUE_ORDER[i][2] = r.team

\* C3 amended: adjacent rows are ordered by (-points, -wins, losses); rows
\* equal on all three keep their roster order
C3_SortedByPointsWinsLosses ==
    Delivered =>
        \A k \in RowIdx : k < Len(ret.rows) =>
            \/ Key3Before(ret.rows[k], ret.rows[k + 1])
            \/ /\ SameKey3(ret.rows[k], ret.rows[k + 1])
               /\ RosterPos(ret.rows[k]) < RosterPos(ret.rows[k + 1])

\* two rows tie on points and wins and are ordered by losses, against roster order
C3_Witness ==
    /\ Delivered /\ Len(ret.rows) = 2
    /\ ret.rows[1].points = ret.rows[2].points
    /\ ret.rows[1].wins = ret.rows[2].wins
    /\ ret.rows[1].losses < ret.rows[2].losses
    /\ RosterPos(ret.rows[1]) = 2

ExpectedRow(i) ==
    apply_alias_and_metrics(
        compute_team_record_for_user(LEAGUE_ORDER[i][1], LEAGUE_ORDER[i][2], got[i]))

\* C9: a fetch_page call makes at most RETRIES attempts, so the run makes at
\* most RETRIES requests per roster entry and page and then ends; a failed
\* fetch_page returns no records without raising, and the delivered table has
\* one row per roster entry, each computed from the records its own fetches
\* returned (none for an entry whose fetches all failed)
C9_FetchFailureIsolated ==
    /\ pc = "fetching" =>
          /\ attempt < RETRIES
          /\ idx \in 1..Len(LEAGUE_ORDER) /\ pageIx \in 1..Len(PAGES)
          /\ requests < Len(LEAGUE_ORDER) * Len(PAGES) * RETRIES
    /\ requests <= Len(LEAGUE_ORDER) * Len(PAGES) * RETRIES
    /\ buildRaised => got = <<>> /\ failedAll = {} /\ requests = 0
    /\ (Delivered /\ ~buildRaised) =>
          /\ Len(ret.rows) = Len(LEAGUE_ORDER)
          /\ \A i \in 1..Len(LEAGUE_ORDER) :
                /\ i \in failedAll => got[i] = <<>>
                /\ \E k \in RowIdx : ret.rows[k] = ExpectedRow(i)

\* every fetch of the first entry failed, the second entry still has its win
C9_Witness ==
    /\ Delivered /\ Len(LEAGUE_ORDER) = 2 /\ failedAll = {1}
    /\ requests = Len(PAGES) * RETRIES + Len(PAGES)
    /\ got[2] # <<>>
    /\ \E k \in RowIdx : ret.rows[k].user = LEAGUE_ORDER[2][1] /\ ret.rows[k].wins = 1
    /\ \E k \in RowIdx : ret.rows[k].user = LEAGUE_ORDER[1][1] /\ ret.rows[k].played = 0

ConfigMissing ==
    "LEAGUE_ORDER" \notin scpd_attrs \/ "compute_team_record_for_user" \notin scpd_attrs

\* what get_rows_cached returns after a run that produced an empty table
EmptyTableResult == [raised |-> FALSE, rows |-> <<>>, notes |-> <<>>]

\* C10 as claimed: with the configuration missing, the caller of
\* get_rows_cached gets something else than after an empty table
C10_ConfigErrorSurfaced == (Delivered /\ ConfigMissing) => ret # EmptyTableResult

\* C10 amended: _build_rows_robusto raises exactly when the configuration is
\* missing; get_rows_cached catches it and returns and caches empty rows and
\* notes, the same as after a run over an empty roster
C10_ConfigErrorSwallowed ==
    Delivered =>
        /\ buildRaised <=> ConfigMissing
        /\ ConfigMissing =>
              /\ ret = EmptyTableResult
              /\ cache.rows = <<>> /\ cache.notes = <<>> /\ cache.ts = clock
        /\ (~ConfigMissing /\ LEAGUE_ORDER = <<>>) => ret = EmptyTableResult

\* compute_rows exists, LEAGUE_ORDER does not
C10_Witness ==
    /\ Delivered /\ buildRaised
    /\ "compute_rows" \in scpd_attrs /\ "LEAGUE_ORDER" \notin scpd_attrs
    /\ ret = EmptyTableResult

(***************************************************************************)
(* SpecAgg: one call of compute_team_record_for_user on fetched records    *)
(***************************************************************************)
\* dates around the floor, and strings strptime rejects
AggDates ==
    { DateStr("mdY_HMS", 241, 23, 59, 59), DateStr("mdY_HM", 242, 0, 0, 0),
      DateStr("iso", 243, 12, 0, 0) }

\* a plain league game Mets (home, W) vs Reds, under a given identifier
PlainWin(id) ==
    Game(id, "LEAGUE", DateStr("mdY_HMS", 243, 1, 30, 0), "Mets", "Reds",
         "THELSURICATO", "machado_seba-03", "W", "L", PyI("5"), PyI("2"))

\* what follows the record: nothing, a plain game under the same identifier
\* (so dedup drops it), or a plain game under another identifier
AggTails == { <<>>, <<PlainWin(PyS("g1"))>>, <<PlainWin(PyI("2"))>> }

\* the first record comes in every combination of the fields the aggregator reads
InitAgg ==
    /\ ConfDefault
    /\ username_exact = "THELSURICATO"
    /\ team_name \in {"Mets", "Rangers"}
    /\ \E mode \in {"LEAGUE", " league ", "RANKED"}, date \in AggDates,
          hfull \in {"Mets", " METS ", "Reds"}, afull \in {"Mets", "Reds"},
          hname \in {"THELSURICATO", "^b54^TheLSuricato ", "CPU", "AiramReynoso_", ""},
          aname \in {"zancudo99", "^b3^cpu", "AiramReynoso_", "CPU"},
          hres \in {"W", "L", "", " w"}, ares \in {"W", "L", ""},
          tail \in AggTails :
            fetched = <<Game(PyS("g1"), mode, date, hfull, afull, hname, aname,
                             hres, ares, PyI("1"), PyI("0"))>> \o tail
    /\ considered = <<>>
    /\ tally = [wins |-> 0, losses |-> 0]
    /\ row = [user |-> ""]
    /\ aggDone = FALSE
    /\ DedupIdle
    /\ PipeIdle
    /\ FeedIdle
    /\ TodayIdle
    /\ CallIdle

ComputeRecord ==
    /\ ~aggDone
    /\ fetched # <<>>
    /\ considered' = Considered(dedup_by_id(fetched), team_name)
    /\ tally' = CountWL(considered', team_name)
    /\ row' = compute_team_record_for_user(username_exact, team_name, fetched)
    /\ aggDone' = TRUE
    /\ UNCHANGED <<username_exact, team_name, fetched, confVars, dedupVars, pipeVars,
                   feedVars, todayVars,
                   callVars>>

NextAgg == ComputeRecord

SpecAgg == InitAgg /\ [][NextAgg]_vars

\* ---- the membership rule in the specification's words ----
IsMember(raw) ==
    raw # "" /\ \E i \in 1..Len(LEAGUE_ORDER) :
        Lower(LEAGUE_ORDER[i][1]) = Lower(Strip(StripMarkup(raw)))
IsCpuName(raw) == raw # "" /\ Lower(Strip(StripMarkup(raw))) = "cpu"
TeamIsHome(g, team) == Lower(Strip(g.home_full_name)) = Lower(Strip(team))
TeamIsAway(g, team) == Lower(Strip(g.away_full_name)) = Lower(Strip(team))
MembershipRule(g) ==
    \/ IsMember(g.home_name) /\ IsMember(g.away_name)
    \/ IsCpuName(g.home_name) /\ IsMember(g.away_name)
    \/ IsCpuName(g.away_name) /\ IsMember(g.home_name)
Countable(g, team) == (TeamIsHome(g, team) \/ TeamIsAway(g, team)) /\ MembershipRule(g)

CountOf(xs, P(_)) == Cardinality({ i \in 1..Len(xs) : P(xs[i]) })

\* C7: only records in which the team plays and whose participants are both
\* roster members, or CPU and a roster member, count; the number of wins and
\* losses counted never exceeds the number of such records fetched
C7_OnlyValidRivalsCount ==
    aggDone =>
        /\ \A i \in 1..Len(considered) : Countable(considered[i], team_name)
        /\ tally.wins + tally.losses
             <= CountOf(dedup_by_id(fetched), LAMBDA g : Countable(g, team_name))
        /\ row.wins = tally.wins /\ row.losses = tally.losses

\* a CPU game of a member (markup in the name) counted, a non-member's game not
C7_Witness ==
    /\ aggDone /\ team_name = "Mets" /\ Len(fetched) = 2
    /\ fetched[1].home_name = "AiramReynoso_" /\ fetched[1].away_name = "zancudo99"
    /\ fetched[1].game_mode = "LEAGUE" /\ fetched[1].home_display_result = "W"
    /\ fetched[1].home_full_name = "Mets" /\ fetched[1].display_date.fmt = "mdY_HM"
    /\ fetched[2].id = PyI("2")
    /\ considered = <<fetched[2]>>
    /\ tally = [wins |-> 1, losses |-> 0]

\* ---- attribution by the team's own result tag, in the specification's words ----
OwnTag(g, team) ==
    IF TeamIsHome(g, team) THEN Upper(Strip(g.home_display_result))
    ELSE Upper(Strip(g.away_display_result))
OneSided(g, team) == TeamIsHome(g, team) # TeamIsAway(g, team)

\* C8: every record that passed the filters adds a win when the tag of the
\* team's own side is W and a loss when it is L, whatever the other side's tag
C8_OwnSideTagDecides ==
    (aggDone /\ \A i \in 1..Len(considered) : OneSided(considered[i], team_name)) =>
        /\ tally.wins = CountOf(considered, LAMBDA g : OwnTag(g, team_name) = "W")
        /\ tally.losses = CountOf(considered, LAMBDA g : OwnTag(g, team_name) = "L")

(***************************************************************************)
(* games_played_today_scl                                                  *)
(***************************************************************************)
\* d.replace(tzinfo=UTC).astimezone(ZoneInfo("America/Santiago")): Chile is
\* at UTC-4 until 7 Sep 2025 04:00 UTC (day 250) and at UTC-3 after it
santiago_offset_hours(d) ==
    IF d.day < 250 \/ (d.day = 250 /\ d.hh < 4) THEN -4 ELSE -3

to_santiago(d) ==
    LET total == d.day * 1440 + d.hh * 60 + d.mi + santiago_offset_hours(d) * 60
    IN  [ok |-> TRUE, day |-> total \div 1440, hh |-> (total % 1440) \div 60,
         mi |-> total % 60, ss |-> d.ss]

\* mutant: the key keeps the seconds
canon_key_seconds(g, d_local) ==
    <<Strip(g.home_full_name), Strip(g.away_full_name),
      StrOr(g.home_runs, "0"), StrOr(g.away_runs, "0"),
      d_local.day, d_local.hh, d_local.mi, d_local.ss>>

\* (home, away, hr, ar, "%Y-%m-%d %H:%M")
canon_key(g, d_local) ==
    <<Strip(g.home_full_name), Strip(g.away_full_name),
      StrOr(g.home_runs, "0"), StrOr(g.away_runs, "0"),
      d_local.day, d_local.hh, d_local.mi>>

\* "<home> <hr> - <away> <ar>  - %d-%m-%Y - %-I:%M %p (hora Chile)", with the
\* instant it is sorted by
feed_item(g, d, d_local) ==
    [at |-> d,
     home |-> Strip(g.home_full_name), hr |-> StrOr(g.home_runs, "0"),
     away |-> Strip(g.away_full_name), ar |-> StrOr(g.away_runs, "0"),
     day |-> d_local.day,
     h12 |-> IF d_local.hh % 12 = 0 THEN 12 ELSE d_local.hh % 12,
     mi |-> d_local.mi,
     ampm |-> IF d_local.hh >= 12 THEN "pm" ELSE "am",
     suffix |-> "(hora Chile)"]

\* the filters ahead of the two dedup sets
feed_selects(g, today_local) ==
    /\ Upper(Strip(g.game_mode)) = MODE
    /\ LET d == parse_date(g.display_date)
       IN  d.ok /\ to_santiago(d).day = today_local
    /\ normalize_user_for_compare(g.home_name) \in LEAGUE_USERS_NORM
    /\ normalize_user_for_compare(g.away_name) \in LEAGUE_USERS_NORM

RECURSIVE feed_loop(_, _, _, _, _)
feed_loop(rest, today_local, seen_ids, seen_keys, items) ==
    IF rest = <<>> THEN items
    ELSE LET g == Head(rest)
             d == parse_date(g.display_date)
             d_local == to_santiago(d)
             gid == Gid(g)
             key == canon_key(g, d_local)
         IN  IF ~feed_selects(g, today_local)
                  \/ (gid # "" /\ gid \in seen_ids) \/ key \in seen_keys
             THEN feed_loop(Tail(rest), today_local, seen_ids, seen_keys, items)
             ELSE feed_loop(Tail(rest), today_local,
                            IF gid # "" THEN seen_ids \cup {gid} ELSE seen_ids,
                            seen_keys \cup {key},
                            Append(items, feed_item(g, d, d_local)))

\* items.sort(key=lambda x: x[0]), stable
RECURSIVE insert_item(_, _)
insert_item(sorted, x) ==
    IF sorted = <<>> THEN <<x>>
    ELSE IF DtBefore(x.at, Head(sorted).at) THEN <<x>> \o sorted
    ELSE <<Head(sorted)>> \o insert_item(Tail(sorted), x)

RECURSIVE sort_items(_, _)
sort_items(sorted, rest) ==
    IF rest = <<>> THEN sorted
    ELSE sort_items(insert_item(sorted, Head(rest)), Tail(rest))

\* `recs` is what the fetch_page calls returned, `now` is datetime.now(UTC)
games_played_today_scl(recs, now) ==
    sort_items(<<>>, feed_loop(dedup_by_id(recs), to_santiago(now).day, {}, {}, <<>>))

(***************************************************************************)
(* SpecFeed: one call of games_played_today_scl on fetched records         *)
(***************************************************************************)
MaxFeedLen == 2

\* 1 Sep 2025 (day 244): 15:28:00, 15:28:40 and 18:05 UTC are the same day in
\* Chile, 03:30 UTC is still 31 Aug there
FeedDates ==
    { DateStr("mdY_HMS", 244, 15, 28, 0), DateStr("mdY_HMS", 244, 15, 28, 40),
      DateStr("mdY_HM", 244, 18, 5, 0), DateStr("mdY_HMS", 244, 3, 30, 0) }

FeedRecords ==
    { Game(id, "LEAGUE", date, "Mets", "Reds", "THELSURICATO", aname, "W", "L",
           hruns, PyI("2")) :
        id \in {PyNone, PyS("g1"), PyS("g2")},
        date \in FeedDates,
        aname \in {"machado_seba-03", "CPU"},
        hruns \in {PyI("5"), PyS("5")} }

InitFeed ==
    /\ ConfDefault
    /\ \E n \in 0..MaxFeedLen : all_pages \in [1..n -> FeedRecords]
    /\ nowUtc \in {DateTime(244, 16, 0, 0), DateTime(244, 2, 0, 0)}
    /\ feed = <<>>
    /\ feedDone = FALSE
    /\ DedupIdle
    /\ AggIdle
    /\ PipeIdle
    /\ TodayIdle
    /\ CallIdle

GamesPlayedToday ==
    /\ ~feedDone
    /\ feed' = games_played_today_scl(all_pages, nowUtc)
    /\ feedDone' = TRUE
    /\ UNCHANGED <<all_pages, nowUtc, confVars, dedupVars, aggVars, pipeVars, todayVars,
                   callVars>>

NextFeed == GamesPlayedToday

SpecFeed == InitFeed /\ [][NextFeed]_vars

SameMatchAndDay(a, b) ==
    /\ a.home = b.home /\ a.away = b.away /\ a.hr = b.hr /\ a.ar = b.ar
    /\ a.day = b.day

\* C6 as claimed: no two entries of the feed are equal on (home, away, home
\* runs, away runs, calendar date in Chile)
C6_NoTwoEntriesSameDay ==
    feedDone =>
        \A i, j \in 1..Len(feed) : i # j => ~SameMatchAndDay(feed[i], feed[j])

\* C6 amended: no two entries of the feed are equal on (home, away, home
\* runs, away runs, calendar date, hour and minute in Chile)
C6_NoTwoEntriesSameMinute ==
    feedDone =>
        \A i, j \in 1..Len(feed) : i # j =>
            ~(/\ SameMatchAndDay(feed[i], feed[j])
              /\ feed[i].h12 = feed[j].h12 /\ feed[i].mi = feed[j].mi
              /\ feed[i].ampm = feed[j].ampm)

\* the same match came under two identifiers, seconds apart, and is listed once
C6_Witness ==
    /\ feedDone /\ Len(all_pages) = 2 /\ Len(feed) = 1
    /\ Gid(all_pages[1]) = "g1" /\ Gid(all_pages[2]) = "g2"
    /\ all_pages[1].display_date.ss = 0 /\ all_pages[2].display_date.ss = 40
    /\ all_pages[1].home_runs = PyI("5") /\ all_pages[2].home_runs = PyS("5")
    /\ all_pages[1].away_name = "machado_seba-03"
    /\ all_pages[2].away_name = "machado_seba-03"
    /\ feed[1].h12 = 11 /\ feed[1].mi = 28 /\ feed[1].ampm = "am"

(***************************************************************************)
(* get_games_today_cached and the feed builders it dispatches to           *)
(***************************************************************************)
today_cache_ttl == 60

\* what both _games_played_today_scl_safe need on the standings module
FeedNeeded == {"LEAGUE_ORDER", "PAGES", "MODE", "fetch_page", "dedup_by_id", "parse_date"}

\* app.py: the builder used when the module has no games_played_today_scl
games_played_today_scl_safe(attrs, recs, now) ==
    IF ~(FeedNeeded \subseteq attrs) THEN <<>>
    ELSE IF ~(/\ "normalize_user_for_compare" \in attrs
              /\ "LEAGUE_USERS_NORM" \in attrs /\ LEAGUE_USERS_NORM # {}) THEN <<>>
    ELSE sort_items(<<>>, feed_loop(dedup_by_id(recs), to_santiago(now).day, {}, {}, <<>>))

\* app - copia.py: the timestamp gets the Santiago zone attached
\* (d.replace(tzinfo=tz)), so d_local keeps the wall time of the source
copia_d_local(d) == d

\* app - copia.py: "<home> <hr> - <away> <ar>  - %d-%m-%Y - %-I:%M %p"
copia_item(g, d_local) ==
    [at |-> d_local,
     home |-> Strip(g.home_full_name), hr |-> StrOr(g.home_runs, "0"),
     away |-> Strip(g.away_full_name), ar |-> StrOr(g.away_runs, "0"),
     day |-> d_local.day,
     h12 |-> IF d_local.hh % 12 = 0 THEN 12 ELSE d_local.hh % 12,
     mi |-> d_local.mi,
     ampm |-> IF d_local.hh >= 12 THEN "pm" ELSE "am",
     suffix |-> ""]

\* app - copia.py: mode, date and "al menos 1 miembro de la liga"
copia_selects(attrs, g, today_local) ==
    /\ Upper(Strip(g.game_mode)) = MODE
    /\ LET d == parse_date(g.display_date)
       IN  d.ok /\ copia_d_local(d).day = today_local
    /\ ("normalize_user_for_compare" \in attrs /\ "LEAGUE_USERS_NORM" \in attrs) =>
          \/ normalize_user_for_compare(g.home_name) \in LEAGUE_USERS_NORM
          \/ normalize_user_for_compare(g.away_name) \in LEAGUE_USERS_NORM

RECURSIVE copia_loop(_, _, _, _)
copia_loop(attrs, rest, today_local, items) ==
    IF rest = <<>> THEN items
    ELSE LET g == Head(rest)
         IN  IF copia_selects(attrs, g, today_local)
             THEN copia_loop(attrs, Tail(rest), today_local,
                             Append(items, copia_item(g,
                                 copia_d_local(parse_date(g.display_date)))))
             ELSE copia_loop(attrs, Tail(rest), today_local, items)

\* app - copia.py: the builder used when the module has no games_played_today_scl
games_played_today_scl_safe_copia(attrs, recs, now) ==
    IF ~(FeedNeeded \subseteq attrs) THEN <<>>
    ELSE sort_items(<<>>, copia_loop(attrs, dedup_by_id(recs), to_santiago(now).day, <<>>))

\* mod_func() if mod_func else _games_played_today_scl_safe()
games_today(rev, attrs, recs, now) ==
    IF "games_played_today_scl" \in attrs THEN games_played_today_scl(recs, now)
    ELSE IF rev = "app.py" THEN games_played_today_scl_safe(attrs, recs, now)
    ELSE games_played_today_scl_safe_copia(attrs, recs, now)

(***************************************************************************)
(* SpecToday: requests that reach get_games_today_cached                   *)
(***************************************************************************)
\* the standings module as it is, and a revision of it without
\* games_played_today_scl
ModuleAttrs ==
    FeedNeeded \cup {"normalize_user_for_compare", "LEAGUE_USERS_NORM",
                     "compute_rows", "compute_team_record_for_user"}
TodayAttrs == { ModuleAttrs, ModuleAttrs \cup {"games_played_today_scl"} }

\* day 244 is 1 Sep 2025.  In Chile (UTC-4): 244 15:28 is 1 Sep, 244 03:30 is
\* still 31 Aug, 245 01:00 is still 1 Sep, 241 23:00 is 29 Aug 19:00, a day
\* before SINCE.  The ISO form is one parse_date does not read.
TodayDates ==
    { DateStr("mdY_HMS", 244, 15, 28, 0), DateStr("mdY_HMS", 244, 3, 30, 0),
      DateStr("mdY_HM", 245, 1, 0, 0), DateStr("mdY_HMS", 241, 23, 0, 0),
      DateStr("iso", 244, 15, 28, 0) }

TodayRecords ==
    { Game(id, mode, date, "Mets", "Reds", "THELSURICATO", aname, "W", "L",
           PyI("5"), PyI("2")) :
        id \in {PyNone, PyS("g1")},
        mode \in {"LEAGUE", "ranked"},
        date \in TodayDates,
        aname \in {"machado_seba-03", "CPU", "elvisitante"} }

InitToday ==
    /\ ConfDefault
    /\ app_rev \in {"app.py", "app - copia.py"}
    /\ scpd_attrs \in TodayAttrs
    /\ today_cache = [ts |-> 0, items |-> <<>>]
    /\ clock = 1000
    /\ \E n \in 0..MaxFeedLen : all_pages \in [1..n -> TodayRecords]
    /\ nowUtc \in {DateTime(244, 16, 0, 0), DateTime(242, 2, 0, 0)}
    /\ feed = <<>>
    /\ feedDone = FALSE
    /\ pc = "off"
    /\ idx = 0 /\ pageIx = 0 /\ attempt = 0
    /\ pages = <<>> /\ rows = <<>>
    /\ cache = [ts |-> 0, rows |-> <<>>, notes |-> <<>>]
    /\ ret = [raised |-> FALSE, rows |-> <<>>, notes |-> <<>>]
    /\ buildRaised = FALSE /\ got = <<>> /\ failedAll = {} /\ requests = 0
    /\ DedupIdle
    /\ AggIdle
    /\ CallIdle

\* a route calls get_games_today_cached, `dt` seconds after the previous call
GetGamesTodayCached ==
    /\ \E dt \in {0, today_cache_ttl + 1} :
          /\ clock + dt <= 1000 + today_cache_ttl + 1
          /\ clock' = clock + dt
    /\ IF clock' - today_cache.ts > today_cache_ttl
       THEN today_cache' =
                [ts |-> clock',
                 items |-> games_today(app_rev, scpd_attrs, all_pages, nowUtc)]
       ELSE UNCHANGED today_cache
    /\ feed' = today_cache'.items
    /\ feedDone' = TRUE
    /\ UNCHANGED <<app_rev, all_pages, nowUtc, scpd_attrs, pc, idx, pageIx, attempt,
                   pages, rows, cache, ret, buildRaised, got, failedAll, requests,
                   confVars, dedupVars, aggVars, callVars>>

NextToday == GetGamesTodayCached

SpecToday == InitToday /\ [][NextToday]_vars

\* the current calendar date in Chile
TodayLocal == to_santiago(nowUtc).day

\* the feed entry that record g gives, or gave under another identifier
EntryOf(e, g) ==
    LET d == parse_date(g.display_date)
    IN  /\ d.ok
        /\ e.home = Strip(g.home_full_name) /\ e.away = Strip(g.away_full_name)
        /\ e.hr = StrOr(g.home_runs, "0") /\ e.ar = StrOr(g.away_runs, "0")
        /\ e.at.day = d.day /\ e.at.hh = d.hh /\ e.at.mi = d.mi

Listed(g) == \E k \in 1..Len(feed) : EntryOf(feed[k], g)

BothMembers(g) == IsMember(g.home_name) /\ IsMember(g.away_name)

\* C11: among the records left by the identifier dedup that are league
\* records with a readable date and two roster members, the feed lists exactly those whose timestamp, read as UTC and
\* converted to Chile time, falls on today's date in Chile
C11_SelectsByConvertedDate ==
    feedDone =>
        \A i \in 1..Len(dedup_by_id(all_pages)) :
            LET g == dedup_by_id(all_pages)[i]
                d == parse_date(g.display_date)
            IN  (Upper(Strip(g.game_mode)) = MODE /\ d.ok /\ BothMembers(g)) =>
                    (Listed(g) <=> to_santiago(d).day = TodayLocal)

\* C12: every entry of the feed comes from a record whose two participants
\* are roster members, so from one the aggregator's membership rule admits
\* too, whichever builder get_games_today_cached dispatched to
C12_FeedOnlyBothMembers ==
    feedDone =>
        \A k \in 1..Len(feed) :
            \E i \in 1..Len(all_pages) :
                /\ EntryOf(feed[k], all_pages[i])
                /\ BothMembers(all_pages[i])
                /\ MembershipRule(all_pages[i])

\* C14: every record counted toward a row and every record listed in the
\* feed has mode MODE and a timestamp that is not before SINCE
C14_ModeAndFloorEverywhere ==
    /\ \A i \in 1..Len(considered) :
          LET d == parse_date(considered[i].display_date)
          IN  /\ Upper(Strip(considered[i].game_mode)) = MODE
              /\ d.ok /\ ~DtBefore(d, SINCE)
    /\ feedDone =>
          \A k \in 1..Len(feed) :
              /\ ~DtBefore(feed[k].at, SINCE)
              /\ \E i \in 1..Len(all_pages) :
                    /\ EntryOf(feed[k], all_pages[i])
                    /\ Upper(Strip(all_pages[i].game_mode)) = MODE

(***************************************************************************)
(* SpecCache: a sequence of get_rows_cached calls, each taken whole        *)
(***************************************************************************)
MaxCalls == 3

\* seconds between one call and the next
Elapsed == {0, 60, 61}

\* _build_rows_robusto, given what the fetches of each roster entry returned
build_rows_robusto(attrs, recsOf) ==
    IF config_error(attrs) THEN [raised |-> TRUE, rows |-> <<>>, notes |-> <<>>]
    ELSE LET rs == [i \in 1..Len(LEAGUE_ORDER) |->
                       compute_team_record_for_user(LEAGUE_ORDER[i][1],
                                                    LEAGUE_ORDER[i][2], recsOf[i])]
             out == finish_rows(attrs, rs)
         IN  [raised |-> FALSE, rows |-> out.rows, notes |-> out.notes]

InitCache ==
    /\ LEAGUE_ORDER \in {<<>>, <<E2>>, <<E1, E2>>}
    /\ TEAM_RECORD_ADJUSTMENTS = NoAdjust
    /\ TEAM_POINT_ADJUSTMENTS \in
          {NoAdjust, [t \in {"Reds"} |-> <<-1, "Desconexion vs Blue Jays">>]}
    /\ scpd_attrs \in {{"compute_rows", "compute_team_record_for_user", "LEAGUE_ORDER"},
                       {"compute_team_record_for_user", "LEAGUE_ORDER"},
                       {"compute_rows"}}
    /\ clock = 1000
    /\ cache = [ts |-> 0, rows |-> <<>>, notes |-> <<>>]
    /\ ret = [raised |-> FALSE, rows |-> <<>>, notes |-> <<>>]
    /\ buildRaised = FALSE
    /\ served = [n |-> 0, now |-> 0, rebuilt |-> FALSE, fetches |-> 0,
                 before |-> [ts |-> 0, rows |-> <<>>, notes |-> <<>>],
                 attemptBefore |-> -1, attemptAt |-> -1]
    /\ pc = "off"
    /\ idx = 0 /\ pageIx = 0 /\ attempt = 0
    /\ pages = <<>> /\ rows = <<>>
    /\ got = <<>> /\ failedAll = {} /\ requests = 0
    /\ DedupIdle
    /\ AggIdle
    /\ FeedIdle
    /\ TodayIdle

\* a route calls get_rows_cached `dt` seconds after the previous call; when
\* the rows are rebuilt, recsOf[i] is what fetch_page returned for entry i
GetRowsCachedAt ==
    /\ served.n < MaxCalls
    /\ \E dt \in Elapsed, recsOf \in [1..Len(LEAGUE_ORDER) -> PageResults] :
          LET now == clock + dt
              stale == cache_stale(now, cache)
              built == build_rows_robusto(scpd_attrs, recsOf)
          IN  /\ clock' = now
              /\ IF stale
                 THEN /\ cache' = [ts |-> now, rows |-> built.rows,
                                   notes |-> built.notes]
                      /\ buildRaised' = built.raised
                 ELSE UNCHANGED <<cache, buildRaised>>
              /\ ret' = [raised |-> FALSE, rows |-> cache'.rows, notes |-> cache'.notes]
              /\ served' = [n |-> served.n + 1, now |-> now, rebuilt |-> stale,
                            fetches |-> IF stale /\ ~built.raised
                                        THEN Len(LEAGUE_ORDER) * Len(PAGES) ELSE 0,
                            before |-> cache,
                            attemptBefore |-> served.attemptAt,
                            attemptAt |-> IF stale THEN now ELSE served.attemptAt]
    /\ UNCHANGED <<scpd_attrs, pc, idx, pageIx, attempt, pages, rows, got, failedAll,
                   requests, confVars, dedupVars, aggVars, feedVars, todayVars>>

NextCache == GetRowsCachedAt

SpecCache == InitCache /\ [][NextCache]_vars

\* C15: a call rebuilds exactly when more than CACHE_TTL seconds have passed
\* since the last rebuild attempt or the cached rows are empty (so always
\* after a rebuild that raised or gave an empty table); a rebuild stamps the
\* cache with the time of the call; a call that does not rebuild fetches
\* nothing and returns the cached rows and notes, leaving the cache as it was
C15_RebuildIffStaleOrEmpty ==
    served.n > 0 =>
        /\ served.rebuilt <=>
              \/ served.attemptBefore = -1
              \/ served.now - served.attemptBefore > CACHE_TTL
              \/ served.before.rows = <<>>
        /\ served.rebuilt => cache.ts = served.now /\ served.attemptAt = served.now
        /\ ~served.rebuilt =>
              /\ served.fetches = 0
              /\ cache = served.before
              /\ ret.rows = served.before.rows /\ ret.notes = served.before.notes
        /\ (served.attemptBefore = -1) => served.before.rows = <<>>

\* the rebuild of the first call raised and left empty rows; the second
\* call, 60 seconds later, rebuilt again (and raised again)
C15_Witness ==
    /\ served.n = 2 /\ served.rebuilt /\ buildRaised
    /\ served.now - served.attemptBefore = 60
    /\ served.before.rows = <<>> /\ served.before.ts = served.attemptBefore

\* a call exactly CACHE_TTL seconds after the rebuild of a non-empty table
\* returned the cached rows and notes without fetching
C15_ServedFromCache ==
    /\ served.n = 3 /\ ~served.rebuilt /\ served.fetches = 0
    /\ served.now - served.attemptBefore = CACHE_TTL
    /\ Len(ret.rows) = 2 /\ Len(ret.notes) = 1

(***************************************************************************)
(* SpecDedup: dedup_by_id applied once and again to bounded inputs         *)
(***************************************************************************)
MaxLen == 3

\* identifiers as the API may send them: absent, "", 0, "a", "7", 7
RawIds == {PyNone, PyS(""), PyI("0"), PyS("a"), PyS("7"), PyI("7")}

LeagueDate == DateStr("mdY_HMS", 242, 15, 28, 0)

\* records that differ in identifier and in one more field
DedupRecords ==
    { Game(id, "LEAGUE", LeagueDate, "Mets", "Reds", "THELSURICATO", "zancudo99",
           "W", "L", PyS(r), PyS("0")) : id \in RawIds, r \in {"1", "2"} }

InitDedup ==
    /\ gs \in SeqsUpTo(DedupRecords, MaxLen)
    /\ deduped = <<>>
    /\ first = <<>>
    /\ passes = 0
    /\ ConfDefault
    /\ AggIdle
    /\ PipeIdle
    /\ FeedIdle
    /\ TodayIdle
    /\ CallIdle

\* pages = dedup_by_id(pages)
DedupFirst ==
    /\ passes = 0
    /\ deduped' = dedup_by_id(gs)
    /\ first' = deduped'
    /\ passes' = 1
    /\ UNCHANGED <<gs, confVars, aggVars, pipeVars, feedVars, todayVars,
                   callVars>>

\* dedup_by_id run on its own result
DedupAgain ==
    /\ passes = 1
    /\ deduped' = dedup_by_id(deduped)
    /\ passes' = 2
    /\ UNCHANGED <<gs, first, confVars, aggVars, pipeVars, feedVars, todayVars,
                   callVars>>

NextDedup == DedupFirst \/ DedupAgain

SpecDedup == InitDedup /\ [][NextDedup]_vars

\* C4: dedup_by_id(dedup_by_id(xs)) = dedup_by_id(xs) for every input xs
C4_DedupIdempotent == passes = 2 => deduped = first

\* a second pass ran on an input in which the first pass dropped a record
C4_Witness == passes = 2 /\ Len(first) < Len(gs) /\ Len(first) >= 2

\* indices the specification says survive: empty identifier, or first with its identifier
KeptIdx(xs) ==
    { i \in 1..Len(xs) :
        Gid(xs[i]) = "" \/ \A j \in 1..(i - 1) : Gid(xs[j]) # Gid(xs[i]) }

RECURSIVE SubSeqAt(_, _, _)
SubSeqAt(xs, I, i) ==
    IF i > Len(xs) THEN <<>>
    ELSE IF i \in I THEN <<xs[i]>> \o SubSeqAt(xs, I, i + 1)
    ELSE SubSeqAt(xs, I, i + 1)

\* C5: the result is the subsequence of the input, in input order, made of
\* every record with an empty or absent identifier and the first record of
\* each non-empty identifier, and nothing else
C5_DedupKeepsFirst == passes >= 1 => first = SubSeqAt(gs, KeptIdx(gs), 1)

\* the input repeats an identifier around a record without one
C5_Witness ==
    /\ passes >= 1 /\ Len(gs) = 3
    /\ Gid(gs[1]) = "7" /\ Gid(gs[2]) = "" /\ Gid(gs[3]) = "7"
    /\ gs[1] # gs[3]
    /\ first = <<gs[1], gs[2]>>

====
